---- MODULE Spec2Model ----
(***************************************************************************)
(* The dictionary-lookup application: HomeScreen (src/index.tsx) and       *)
(* ResultsScreen (src/results.tsx).                                        *)
(*                                                                         *)
(* JavaScript values are modelled as tuples of strings: a string is the    *)
(* tuple of its characters, null and undefined are one-element tuples      *)
(* holding a marker.  A list (history, favorites, suggestions, results) is *)
(* a sequence of strings; a DictionaryEntry is represented by its headword *)
(* (the only field the handlers read).                                     *)
(*                                                                         *)
(* Every handler of the source is an operator that maps the values its     *)
(* closure captured to the sequence of calls it makes, in statement order  *)
(* (state setters, setTimeout/clearTimeout, API.get, AsyncStorage,         *)
(* router.push).  An action runs one handler and applies its calls.        *)
(***************************************************************************)
EXTENDS Integers, Sequences, FiniteSets, TLC

\* ---------------------------------------------------------------- bounds
MaxTimers == 2      \* pending debounce timers
MaxInFlight == 2    \* lookup requests in flight
MaxOps == 2         \* AsyncStorage operations not yet served
Tick == 250         \* granularity of the clock, in ms

\* ------------------------------------------------------ program constants
Delay == 500
HistoryLimit == 5

\* ------------------------------------------------------------- JS values
Null == <<"null">>
Undefined == <<"undefined">>
EmptyString == <<>>

\* !v for the values that occur: '', null and undefined are falsy
Falsy(v) == v \in {EmptyString, Null, Undefined}

\* a || b
OrElse(a, b) == IF Falsy(a) THEN b ELSE a

RECURSIVE trimStart(_)
trimStart(s) == IF s # <<>> /\ Head(s) = " " THEN trimStart(Tail(s)) ELSE s

RECURSIVE trimEnd(_)
trimEnd(s) ==
    IF s # <<>> /\ s[Len(s)] = " " THEN trimEnd(SubSeq(s, 1, Len(s) - 1)) ELSE s

\* String.prototype.trim
trim(s) == trimEnd(trimStart(s))

\* Array.prototype.filter(item => item !== term)
filterOut(list, term) == SelectSeq(list, LAMBDA item : item # term)

\* Array.prototype.includes
includes(list, term) == \E i \in DOMAIN list : list[i] = term

\* Array.prototype.slice(0, n)
slice0(list, n) == SubSeq(list, 1, IF Len(list) < n THEN Len(list) ELSE n)

\* JSON.stringify of a list of strings, and JSON.parse of such a text
JSONstringify(list) == [kind |-> "json", list |-> list]
JSONparse(text) == text.list

\* AsyncStorage.getItem resolves to null for a key that was never written
StorageNull == [kind |-> "null"]

\* a stored text that is not JSON: JSON.parse throws a SyntaxError on it
StorageCorrupt == [kind |-> "corrupt"]
JSONparseThrows(text) == text.kind = "corrupt"

\* the three filter tags the home screen renders
Filters == {<<"pada">>, <<"vyakhya">>, <<"sandarbha">>}

\* ------------------------------------------------------------ the calls
\* A handler's result is the sequence of calls it makes, in statement order.
Set(setter, value) == [call |-> setter, value |-> value]
ApiGet(w, f) == [call |-> "API.get", word |-> w, filter |-> f]
GetItem(k) == [call |-> "getItem", key |-> k]
SetItem(k, v) == [call |-> "setItem", key |-> k, value |-> v]
Push(w, f) == [call |-> "router.push", word |-> w, filter |-> f]
ClearTimeout == [call |-> "clearTimeout"]
SetTimeout(args, ms) == [call |-> "setTimeout", args |-> args, delay |-> ms]
ConsoleError == [call |-> "console.error"]
Unhandled == [call |-> "unhandledRejection"]

\* the calls of e to one function, and the value the last call to a setter
\* passes (the state after the batch), or the current value without one
Calls(e, name) == SelectSeq(e, LAMBDA c : c.call = name)
Final(e, name, current) ==
    LET s == Calls(e, name) IN IF Len(s) = 0 THEN current ELSE s[Len(s)].value

\* ----------------------------------------------------- HomeScreen handlers
\* the function debounce returns: cancels the timer its own closure holds,
\* then schedules func(args)
debounced(args, delay) == <<ClearTimeout, SetTimeout(args, delay)>>

loadHistory == <<GetItem("searchHistory")>>

\* mutant of loadHistoryResume: without the test of stored, an absent key
\* sets the empty list
loadHistoryResumeNoTest(stored) ==
    IF stored.kind = "null"
    THEN <<Set("setHistory", <<>>)>>
    ELSE IF JSONparseThrows(stored)
    THEN <<Unhandled>>
    ELSE <<Set("setHistory", JSONparse(stored))>>

\* loadHistory after the await: stored is what getItem resolved to; nothing
\* catches what JSON.parse throws, so the promise of loadHistory is rejected
loadHistoryResume(stored) ==
    IF stored.kind = "null"
    THEN <<>>
    ELSE IF JSONparseThrows(stored)
    THEN <<Unhandled>>
    ELSE <<Set("setHistory", JSONparse(stored))>>

\* mutants of historyUpdated: the earlier occurrence is kept; the list is cut
\* before the term is put in front
historyUpdatedKeepsOccurrence(term, hist) ==
    slice0(<<term>> \o hist, HistoryLimit)

historyUpdatedCutsFirst(term, hist) ==
    <<term>> \o slice0(filterOut(hist, term), HistoryLimit)

historyUpdated(term, hist) ==
    slice0(<<term>> \o filterOut(hist, term), HistoryLimit)

\* mutant of saveToHistory: the write is issued before the state update
saveToHistoryWritesFirst(term, hist) ==
    LET updated == historyUpdated(term, hist)
    IN  <<SetItem("searchHistory", JSONstringify(updated)),
          Set("setHistory", updated)>>

saveToHistory(term, hist) ==
    LET updated == historyUpdated(term, hist)
    IN  <<Set("setHistory", updated),
          SetItem("searchHistory", JSONstringify(updated))>>

\* mutant of fetchSuggestions: without the test of input
fetchSuggestionsNoGuard(input, filt) ==
    <<Set("setIsSearching", TRUE), ApiGet(input, OrElse(filt, Undefined))>>

\* fetchSuggestions up to the await; filt is the selectedFilter of the render
\* whose closure is running
fetchSuggestions(input, filt) ==
    IF Falsy(input)
    THEN <<Set("setSuggestions", <<>>)>>
    ELSE <<Set("setIsSearching", TRUE), ApiGet(input, OrElse(filt, Undefined))>>

\* mutant of fetchSuggestionsResume: try / finally without the catch
fetchSuggestionsResumeNoCatch(response) ==
    IF response.kind = "throw"
    THEN <<Set("setIsSearching", FALSE), Unhandled>>
    ELSE IF response.success
    THEN <<Set("setSuggestions",
               IF response.hasResults THEN response.results ELSE <<>>),
           Set("setIsSearching", FALSE)>>
    ELSE <<Set("setSuggestions", <<>>), Set("setIsSearching", FALSE)>>

\* fetchSuggestions after the await: try / catch / finally
fetchSuggestionsResume(response) ==
    IF response.kind = "throw"
    THEN <<ConsoleError, Set("setSuggestions", <<>>), Set("setIsSearching", FALSE)>>
    ELSE IF response.success
    THEN <<Set("setSuggestions",
               IF response.hasResults THEN response.results ELSE <<>>),
           Set("setIsSearching", FALSE)>>
    ELSE <<Set("setSuggestions", <<>>), Set("setIsSearching", FALSE)>>

\* handleSearch in a render whose closure holds w, filt and hist
handleSearch(w, filt, hist) ==
    IF Falsy(trim(w))
    THEN <<>>
    ELSE saveToHistory(trim(w), hist)
         \o <<Push(trim(w), OrElse(filt, Undefined))>>

handleSuggestionSelect(item, filt, hist) ==
    <<Set("setWord", item)>>
    \o saveToHistory(item, hist)
    \o <<Push(item, OrElse(filt, Undefined))>>

\* mutant of toggleFilter: the active tag is not cleared
toggleFilterNeverClears(filterName, w, filt) ==
    <<Set("setSelectedFilter", filterName)>>
    \o (IF ~Falsy(w) THEN fetchSuggestions(w, filt) ELSE <<>>)

toggleFilter(filterName, w, filt) ==
    LET newFilter == IF filt = filterName THEN Null ELSE filterName
    IN  <<Set("setSelectedFilter", newFilter)>>
        \o (IF ~Falsy(w) THEN fetchSuggestions(w, filt) ELSE <<>>)

\* mutant of onChangeText: a blank text is not passed to debouncedFetch
onChangeTextGuarded(text) ==
    IF Falsy(trim(text))
    THEN <<Set("setWord", text)>>
    ELSE <<Set("setWord", text)>> \o debounced(text, Delay)

onChangeText(text) == <<Set("setWord", text)>> \o debounced(text, Delay)

clearPress == <<Set("setWord", EmptyString)>>

\* the onPress of a recent-search item
historyPress(item, w, filt, hist) ==
    <<Set("setWord", item)>> \o handleSearch(w, filt, hist)

\* -------------------------------------------------- ResultsScreen handlers
loadFavorites == <<GetItem("favorites")>>

loadFavoritesResume(stored) ==
    IF stored.kind = "null"
    THEN <<>>
    ELSE IF JSONparseThrows(stored)
    THEN <<Unhandled>>
    ELSE <<Set("setFavorites", JSONparse(stored))>>

\* mutant of fetchResults: the flag is set after the request is issued
fetchResultsFlagAfterRequest(w, f) ==
    IF Falsy(w)
    THEN <<>>
    ELSE <<ApiGet(w, OrElse(f, Undefined)), Set("setLoading", TRUE)>>

fetchResults(w, f) ==
    IF Falsy(w)
    THEN <<>>
    ELSE <<Set("setLoading", TRUE), ApiGet(w, OrElse(f, Undefined))>>

\* fetchResults after the await: try / catch / finally
fetchResultsResume(response) ==
    IF response.kind = "throw"
    THEN <<ConsoleError, Set("setResults", <<>>), Set("setLoading", FALSE)>>
    ELSE IF response.success
    THEN <<Set("setResults",
               IF response.hasResults THEN response.results ELSE <<>>),
           Set("setLoading", FALSE)>>
    ELSE <<Set("setResults", <<>>), Set("setLoading", FALSE)>>

\* the effect of useEffect(..., [word, filter])
resultsEffect(w, f) == loadFavorites \o fetchResults(w, f)

\* mutant of favoritesUpdated: the term is added whether present or not
favoritesUpdatedAlwaysAdds(term, favs) == favs \o <<term>>

\* mutant of favoritesUpdated: only the last favorite is compared with term
favoritesUpdatedComparesLast(term, favs) ==
    IF favs # <<>> /\ favs[Len(favs)] = term
    THEN SubSeq(favs, 1, Len(favs) - 1)
    ELSE favs \o <<term>>

favoritesUpdated(term, favs) ==
    IF includes(favs, term) THEN filterOut(favs, term) ELSE favs \o <<term>>

toggleFavorite(term, favs) ==
    LET updated == favoritesUpdated(term, favs)
    IN  <<Set("setFavorites", updated),
          SetItem("favorites", JSONstringify(updated))>>

\* ------------------------------------------------------------------ state
VARIABLES
    word, suggestions, history, selectedFilter, isSearching, \* HomeScreen state
    timers,         \* the debounce timers not yet fired, oldest first
    inflight,       \* the lookup requests not yet answered, oldest first
    storage,        \* AsyncStorage: key -> stored text
    storageOps,     \* the AsyncStorage calls not yet served, oldest first
    route,          \* the focused screen
    params,         \* useLocalSearchParams() of the results screen
    effectDue,      \* the results screen's effect has to run
    results, loading, favorites,                             \* ResultsScreen state
    last            \* the handler that ran last and the calls it made

vars == <<word, suggestions, history, selectedFilter, isSearching, timers,
          inflight, storage, storageOps, route, params, effectDue,
          results, loading, favorites, last>>

Keys == {"searchHistory", "favorites"}

NoParams == [word |-> Undefined, filter |-> Undefined]

\* --------------------------------------------------- applying a handler
\* React renders the home screen again when a setter passes a value that is
\* not the current one; a new array is never the current one.
HomeRerenders(e) ==
    \/ Final(e, "setWord", word) # word
    \/ Final(e, "setSelectedFilter", selectedFilter) # selectedFilter
    \/ Final(e, "setIsSearching", isSearching) # isSearching
    \/ Len(Calls(e, "setSuggestions")) > 0
    \/ Len(Calls(e, "setHistory")) > 0

\* a new render calls debounce again: its closure starts with no timer, and
\* the timers of the closures before stay scheduled
Disown(tms) == [i \in DOMAIN tms |-> [tms[i] EXCEPT !.own = FALSE]]

\* clearTimeout(timeout) cancels the timer of the running closure, setTimeout
\* schedules one that captures the fetchSuggestions of the current render
TimersAfter(e, tms) ==
    LET kept == IF Len(Calls(e, "clearTimeout")) > 0
                THEN SelectSeq(tms, LAMBDA t : ~t.own)
                ELSE tms
        sched == Calls(e, "setTimeout")
        new == [i \in DOMAIN sched |->
                   [input |-> sched[i].args, filter |-> selectedFilter,
                    left |-> sched[i].delay, own |-> TRUE, newest |-> TRUE]]
        old == IF Len(sched) > 0
               THEN [i \in DOMAIN kept |-> [kept[i] EXCEPT !.newest = FALSE]]
               ELSE kept
    IN  IF HomeRerenders(e) THEN Disown(old \o new) ELSE old \o new

\* mutant of InFlightAfter: a new lookup aborts the older ones of its screen
InFlightAfterAborting(e, scr, reqs) ==
    LET gets == Calls(e, "API.get")
        new == [i \in DOMAIN gets |->
                   [screen |-> scr, word |-> gets[i].word, filter |-> gets[i].filter,
                    latest |-> TRUE, live |-> TRUE]]
        old == IF Len(gets) > 0
               THEN SelectSeq(reqs, LAMBDA r : r.screen # scr)
               ELSE reqs
    IN  old \o new

\* the requests of e join the ones in flight; nothing in flight is cancelled
InFlightAfter(e, scr, reqs) ==
    LET gets == Calls(e, "API.get")
        new == [i \in DOMAIN gets |->
                   [screen |-> scr, word |-> gets[i].word, filter |-> gets[i].filter,
                    latest |-> TRUE, live |-> TRUE]]
        old == IF Len(gets) > 0
               THEN [i \in DOMAIN reqs |->
                        IF reqs[i].screen = scr
                        THEN [reqs[i] EXCEPT !.latest = FALSE] ELSE reqs[i]]
               ELSE reqs
    IN  old \o new

StorageOpsAfter(e, ops) ==
    LET cs == SelectSeq(e, LAMBDA c : c.call \in {"getItem", "setItem"})
    IN  ops \o [i \in DOMAIN cs |->
                   [op |-> cs[i].call, key |-> cs[i].key,
                    value |-> IF cs[i].call = "setItem" THEN cs[i].value
                              ELSE StorageNull,
                    live |-> TRUE]]

Pushed(e) == Len(Calls(e, "router.push")) > 0

\* the handler described by h ran on screen scr and made the calls e; tms, reqs
\* and ops are the timers, requests and storage calls pending beside them
Run(h, scr, e, tms, reqs, ops) ==
    /\ word' = Final(e, "setWord", word)
    /\ suggestions' = Final(e, "setSuggestions", suggestions)
    /\ history' = Final(e, "setHistory", history)
    /\ selectedFilter' = Final(e, "setSelectedFilter", selectedFilter)
    /\ isSearching' = Final(e, "setIsSearching", isSearching)
    /\ timers' = TimersAfter(e, tms)
    /\ Len(timers') <= MaxTimers
    /\ inflight' = InFlightAfter(e, scr, reqs)
    /\ Len(inflight') <= MaxInFlight
    /\ storageOps' = StorageOpsAfter(e, ops)
    /\ Len(storageOps') <= MaxOps
    /\ IF Pushed(e)
       THEN LET p == Calls(e, "router.push")[1]
            IN  /\ route' = "results"
                /\ params' = [word |-> p.word, filter |-> p.filter]
                /\ results' = <<>>
                /\ loading' = TRUE
                /\ favorites' = <<>>
       ELSE /\ UNCHANGED <<route, params>>
            /\ results' = Final(e, "setResults", results)
            /\ loading' = Final(e, "setLoading", loading)
            /\ favorites' = Final(e, "setFavorites", favorites)
    /\ last' = h @@ [screen |-> scr, effects |-> e]

Remove(seq, i) == SubSeq(seq, 1, i - 1) \o SubSeq(seq, i + 1, Len(seq))

\* ---------------------------------------------------------------- inputs
\* what the user types, what the lookup service answers, what a link to the
\* results screen carries, and what an earlier run of the application left
\* in the storage
A == <<"a">>
B == <<"b">>
Texts == {EmptyString, <<" ">>, A, <<"a", " ">>, B}
Headwords == {A, <<"c">>}
ApiResults == {<<>>, <<A>>, <<A, <<"c">>>>}
Responses ==
    {[kind |-> "throw"]}
    \cup {[kind |-> "data", success |-> ok, hasResults |-> FALSE, results |-> <<>>] :
            ok \in BOOLEAN}
    \cup {[kind |-> "data", success |-> ok, hasResults |-> TRUE, results |-> rs] :
            ok \in BOOLEAN, rs \in ApiResults}
LinkParams ==
    {[word |-> w, filter |-> f] :
        w \in {Undefined, EmptyString, A}, f \in {Undefined, <<"pada">>}}
StoredBefore ==
    {[searchHistory |-> StorageNull, favorites |-> StorageNull],
     [searchHistory |-> JSONstringify(<<B, A>>),
      favorites |-> JSONstringify(<<A>>)]}

\* ------------------------------------------------------------------- Init
\* The application starts on the home screen: HomeScreen after its first
\* render and its mount effect, which calls loadHistory; no ResultsScreen yet.
InitHome ==
    /\ word = EmptyString
    /\ suggestions = <<>>
    /\ history = <<>>
    /\ selectedFilter = Null
    /\ isSearching = FALSE
    /\ timers = <<>>
    /\ inflight = <<>>
    /\ storage \in StoredBefore
    /\ storageOps = StorageOpsAfter(loadHistory, <<>>)
    /\ route = "home"
    /\ params = NoParams
    /\ effectDue = FALSE
    /\ results = <<>>
    /\ loading = TRUE
    /\ favorites = <<>>
    /\ last = [op |-> "mount", screen |-> "home", effects |-> loadHistory]

\* The application is started by a link to /results: ResultsScreen after its
\* first render, its effect not yet run; no HomeScreen.
InitLinked ==
    /\ word = EmptyString
    /\ suggestions = <<>>
    /\ history = <<>>
    /\ selectedFilter = Null
    /\ isSearching = FALSE
    /\ timers = <<>>
    /\ inflight = <<>>
    /\ storage \in StoredBefore
    /\ storageOps = <<>>
    /\ route = "results"
    /\ params \in LinkParams
    /\ effectDue = TRUE
    /\ results = <<>>
    /\ loading = TRUE
    /\ favorites = <<>>
    /\ last = [op |-> "link", screen |-> "results", effects |-> <<>>]

Init == InitHome

\* the same two starts with a storage whose texts are not JSON (written by
\* another version of the application, or damaged)
StoredCorrupt ==
    {[searchHistory |-> StorageCorrupt, favorites |-> StorageCorrupt]}

InitHomeCorrupt ==
    /\ word = EmptyString
    /\ suggestions = <<>>
    /\ history = <<>>
    /\ selectedFilter = Null
    /\ isSearching = FALSE
    /\ timers = <<>>
    /\ inflight = <<>>
    /\ storage \in StoredCorrupt
    /\ storageOps = StorageOpsAfter(loadHistory, <<>>)
    /\ route = "home"
    /\ params = NoParams
    /\ effectDue = FALSE
    /\ results = <<>>
    /\ loading = TRUE
    /\ favorites = <<>>
    /\ last = [op |-> "mount", screen |-> "home", effects |-> loadHistory]

InitLinkedCorrupt ==
    /\ word = EmptyString
    /\ suggestions = <<>>
    /\ history = <<>>
    /\ selectedFilter = Null
    /\ isSearching = FALSE
    /\ timers = <<>>
    /\ inflight = <<>>
    /\ storage \in StoredCorrupt
    /\ storageOps = <<>>
    /\ route = "results"
    /\ params \in LinkParams
    /\ effectDue = TRUE
    /\ results = <<>>
    /\ loading = TRUE
    /\ favorites = <<>>
    /\ last = [op |-> "link", screen |-> "results", effects |-> <<>>]

\* ------------------------------------------------------ HomeScreen actions
\* TextInput onChangeText: the user has changed the text of the input
OnChangeText(text) ==
    /\ route = "home"
    /\ text # word
    /\ Run([op |-> "onChangeText"], "home", onChangeText(text),
           timers, inflight, storageOps)
    /\ UNCHANGED <<storage, effectDue>>

\* the clear button, rendered while word is not empty
ClearPress ==
    /\ route = "home"
    /\ ~Falsy(word)
    /\ Run([op |-> "clearPress"], "home", clearPress, timers, inflight, storageOps)
    /\ UNCHANGED <<storage, effectDue>>

\* time passes; a timer runs when its delay is over
TickStep ==
    /\ Len(timers) > 0
    /\ \A i \in DOMAIN timers : timers[i].left > 0
    /\ timers' = [i \in DOMAIN timers |->
                     [timers[i] EXCEPT
                         !.left = IF @ > Tick THEN @ - Tick ELSE 0]]
    /\ last' = [op |-> "tick", screen |-> "home", effects |-> <<>>]
    /\ UNCHANGED <<word, suggestions, history, selectedFilter, isSearching,
                   inflight, storage, storageOps, route, params, effectDue,
                   results, loading, favorites>>

\* a debounce timer fires: func(...args) with the fetchSuggestions it captured
TimerFires(i) ==
    /\ i \in DOMAIN timers
    /\ timers[i].left = 0
    /\ Run([op |-> "timer", newest |-> timers[i].newest,
            input |-> timers[i].input], "home",
           fetchSuggestions(timers[i].input, timers[i].filter),
           Remove(timers, i), inflight, storageOps)
    /\ UNCHANGED <<storage, effectDue>>

\* a filter button
ToggleFilter(filterName) ==
    /\ route = "home"
    /\ Run([op |-> "toggleFilter", filterName |-> filterName,
            before |-> selectedFilter], "home",
           toggleFilter(filterName, word, selectedFilter),
           timers, inflight, storageOps)
    /\ UNCHANGED <<storage, effectDue>>

\* saveToHistory(term), called by itself
SaveToHistory(term) ==
    /\ route = "home"
    /\ Run([op |-> "saveToHistory", term |-> term, before |-> history], "home",
           saveToHistory(term, history), timers, inflight, storageOps)
    /\ UNCHANGED <<storage, effectDue>>

\* onSubmitEditing, or the Search button, which is disabled while isSearching
HandleSearch(via) ==
    /\ route = "home"
    /\ via = "button" => ~isSearching
    /\ LET e == handleSearch(word, selectedFilter, history)
       IN  /\ Run([op |-> "handleSearch"], "home", e, timers, inflight, storageOps)
           /\ effectDue' = (effectDue \/ Pushed(e))
    /\ UNCHANGED storage

\* a row of the suggestion list
SuggestionPress(i) ==
    /\ route = "home"
    /\ i \in DOMAIN suggestions
    /\ LET e == handleSuggestionSelect(suggestions[i], selectedFilter, history)
       IN  /\ Run([op |-> "suggestionPress"], "home", e, timers, inflight, storageOps)
           /\ effectDue' = (effectDue \/ Pushed(e))
    /\ UNCHANGED storage

\* a recent-search item, rendered while history is not empty and word is
HistoryPress(i) ==
    /\ route = "home"
    /\ Len(history) > 0 /\ Falsy(word)
    /\ i \in DOMAIN history
    /\ LET e == historyPress(history[i], word, selectedFilter, history)
       IN  /\ Run([op |-> "historyPress"], "home", e, timers, inflight, storageOps)
           /\ effectDue' = (effectDue \/ Pushed(e))
    /\ UNCHANGED storage

\* --------------------------------------------------- ResultsScreen actions
\* useEffect(() => { loadFavorites(); fetchResults(); }, [word, filter])
ResultsEffect ==
    /\ effectDue
    /\ Run([op |-> "resultsEffect"], "results",
           resultsEffect(params.word, params.filter), timers, inflight, storageOps)
    /\ effectDue' = FALSE
    /\ UNCHANGED storage

\* a link to /results followed from the home screen
OpenLink(p) ==
    /\ route = "home"
    /\ route' = "results"
    /\ params' = p
    /\ effectDue' = TRUE
    /\ last' = [op |-> "openLink", screen |-> "results", effects |-> <<>>]
    /\ UNCHANGED <<word, suggestions, history, selectedFilter, isSearching,
                   timers, inflight, storage, storageOps,
                   results, loading, favorites>>

\* a link to /results followed while the results screen is shown gives the
\* screen new params
ParamsChange(p) ==
    /\ route = "results"
    /\ ~effectDue
    /\ p # params
    /\ params' = p
    /\ effectDue' = TRUE
    /\ last' = [op |-> "paramsChange", screen |-> "results", effects |-> <<>>]
    /\ UNCHANGED <<word, suggestions, history, selectedFilter, isSearching,
                   timers, inflight, storage, storageOps, route,
                   results, loading, favorites>>

\* the heart button of a result card, rendered while loading is false
ToggleFavorite(i) ==
    /\ route = "results"
    /\ ~loading
    /\ i \in DOMAIN results
    /\ Run([op |-> "toggleFavorite", term |-> results[i], before |-> favorites,
            again |-> (last.op = "toggleFavorite" /\ last.term = results[i]),
            first |-> IF last.op = "toggleFavorite" /\ last.term = results[i]
                      THEN last.before ELSE <<>>],
           "results", toggleFavorite(results[i], favorites),
           timers, inflight, storageOps)
    /\ UNCHANGED <<storage, effectDue>>

\* back to the home screen: the results screen is unmounted, and what it
\* still awaits finds no component to update
UnmountedRequests(reqs) ==
    [i \in DOMAIN reqs |->
        IF reqs[i].screen = "results"
        THEN [reqs[i] EXCEPT !.live = FALSE] ELSE reqs[i]]

UnmountedLoads(ops) ==
    [i \in DOMAIN ops |->
        IF ops[i].op = "getItem" /\ ops[i].key = "favorites"
        THEN [ops[i] EXCEPT !.live = FALSE] ELSE ops[i]]

Back ==
    /\ route = "results"
    /\ route' = "home"
    /\ params' = NoParams
    /\ effectDue' = FALSE
    /\ results' = <<>>
    /\ loading' = TRUE
    /\ favorites' = <<>>
    /\ inflight' = UnmountedRequests(inflight)
    /\ storageOps' = UnmountedLoads(storageOps)
    /\ last' = [op |-> "back", screen |-> "results", effects |-> <<>>]
    /\ UNCHANGED <<word, suggestions, history, selectedFilter, isSearching,
                   timers, storage>>

\* --------------------------------------------------------- the environment
\* the lookup service answers request i, or the transport fails
Response(i, response) ==
    /\ i \in DOMAIN inflight
    /\ LET r == inflight[i]
           h == [op |-> "response", request |-> r, response |-> response]
       IN  IF r.screen = "home"
           THEN Run(h, "home", fetchSuggestionsResume(response),
                    timers, Remove(inflight, i), storageOps)
           ELSE IF r.live
           THEN Run(h, "results", fetchResultsResume(response),
                    timers, Remove(inflight, i), storageOps)
           ELSE Run(h, "results", <<>>, timers, Remove(inflight, i), storageOps)
    /\ UNCHANGED <<storage, effectDue>>

\* AsyncStorage serves its oldest call: a setItem stores the text, a getItem
\* resolves to the stored text and the awaiting load goes on
StorageStep ==
    /\ Len(storageOps) > 0
    /\ LET o == Head(storageOps)
           h == [op |-> "storage", call |-> o]
       IN  IF o.op = "setItem"
           THEN /\ storage' = [storage EXCEPT ![o.key] = o.value]
                /\ Run(h, "storage", <<>>, timers, inflight, Tail(storageOps))
           ELSE /\ UNCHANGED storage
                /\ IF o.key = "searchHistory"
                   THEN Run(h, "home", loadHistoryResume(storage[o.key]),
                            timers, inflight, Tail(storageOps))
                   ELSE IF o.live
                   THEN Run(h, "results", loadFavoritesResume(storage[o.key]),
                            timers, inflight, Tail(storageOps))
                   ELSE Run(h, "results", <<>>, timers, inflight, Tail(storageOps))
    /\ UNCHANGED effectDue

\* ------------------------------------------------------------------- Next
\* the whole application
Next ==
    \/ \E text \in Texts : OnChangeText(text)
    \/ ClearPress
    \/ TickStep
    \/ \E i \in 1..MaxTimers : TimerFires(i)
    \/ \E filterName \in Filters : ToggleFilter(filterName)
    \/ \E via \in {"submit", "button"} : HandleSearch(via)
    \/ \E i \in 1..Len(suggestions) : SuggestionPress(i)
    \/ \E i \in 1..Len(history) : HistoryPress(i)
    \/ \E p \in LinkParams : OpenLink(p)
    \/ ResultsEffect
    \/ \E p \in LinkParams : ParamsChange(p)
    \/ \E i \in 1..Len(results) : ToggleFavorite(i)
    \/ Back
    \/ \E i \in 1..MaxInFlight, response \in Responses : Response(i, response)
    \/ StorageStep

Spec == Init /\ [][Next]_vars

\* The specifications below are the application with some of its handlers
\* and with smaller input sets; every step of theirs is a step of Next.

\* typing on the home screen: the debounced suggestion lookup
TypedTexts == {EmptyString, A, B}
TypingResponses ==
    {[kind |-> "throw"],
     [kind |-> "data", success |-> TRUE, hasResults |-> TRUE, results |-> <<A>>]}
NextTyping ==
    \/ \E text \in TypedTexts : OnChangeText(text)
    \/ TickStep
    \/ \E i \in 1..MaxTimers : TimerFires(i)
    \/ \E i \in 1..MaxInFlight, response \in TypingResponses : Response(i, response)

SpecTyping == InitHome /\ [][NextTyping]_vars

\* typing and the clear button
NextClear ==
    \/ \E text \in TypedTexts : OnChangeText(text)
    \/ ClearPress
    \/ TickStep
    \/ \E i \in 1..MaxTimers : TimerFires(i)
    \/ \E i \in 1..MaxInFlight, response \in TypingResponses : Response(i, response)

SpecClear == InitHome /\ [][NextClear]_vars

\* typing and the filter buttons
FilterTexts == {EmptyString, A}
FilterTags == {<<"pada">>, <<"vyakhya">>}
NextFilter ==
    \/ \E text \in FilterTexts : OnChangeText(text)
    \/ TickStep
    \/ \E i \in 1..MaxTimers : TimerFires(i)
    \/ \E filterName \in FilterTags : ToggleFilter(filterName)
    \/ \E i \in 1..MaxInFlight : Response(i, [kind |-> "throw"])

SpecFilter == InitHome /\ [][NextFilter]_vars

\* the three ways of confirming a search, up to the navigation
ConfirmTexts == {EmptyString, <<"a", " ">>}
ConfirmResponses ==
    {[kind |-> "data", success |-> TRUE, hasResults |-> TRUE, results |-> <<A>>]}
NextConfirm ==
    \/ \E text \in ConfirmTexts : OnChangeText(text)
    \/ TickStep
    \/ \E i \in 1..MaxTimers : TimerFires(i)
    \/ \E i \in 1..MaxInFlight, response \in ConfirmResponses : Response(i, response)
    \/ ToggleFilter(<<"pada">>)
    \/ \E via \in {"submit", "button"} : HandleSearch(via)
    \/ \E i \in 1..Len(suggestions) : SuggestionPress(i)
    \/ \E i \in 1..Len(history) : HistoryPress(i)
    \/ StorageStep

SpecConfirm == InitHome /\ [][NextConfirm]_vars

\* the lookups of both screens: the home screen of an application started
\* normally, the results screen of one started by a link
LookupTexts == {EmptyString, A}
LookupResponses ==
    {[kind |-> "throw"],
     [kind |-> "data", success |-> FALSE, hasResults |-> TRUE, results |-> <<A>>],
     [kind |-> "data", success |-> TRUE, hasResults |-> FALSE, results |-> <<>>],
     [kind |-> "data", success |-> TRUE, hasResults |-> TRUE, results |-> <<A>>],
     [kind |-> "data", success |-> TRUE, hasResults |-> TRUE, results |-> <<B>>]}
NextLookup ==
    \/ \E text \in LookupTexts : OnChangeText(text)
    \/ TickStep
    \/ \E i \in 1..MaxTimers : TimerFires(i)
    \/ ToggleFilter(<<"pada">>)
    \/ ResultsEffect
    \/ \E p \in LinkParams : ParamsChange(p)
    \/ \E i \in 1..MaxInFlight, response \in LookupResponses : Response(i, response)
    \/ StorageStep

SpecLookup == (InitHome \/ InitLinked) /\ [][NextLookup]_vars

\* the two stores: saveToHistory on the home screen, the favorites of the
\* results screen
HistoryTerms == {A, B, <<"c">>, <<"d">>, <<"e">>, <<"f">>}
StoreResponses ==
    {[kind |-> "data", success |-> TRUE, hasResults |-> TRUE, results |-> rs] :
        rs \in {<<A>>, <<A, <<"c">>>>}}
NextStore ==
    \/ \E term \in HistoryTerms : SaveToHistory(term)
    \/ ResultsEffect
    \/ \E i \in 1..MaxInFlight, response \in StoreResponses : Response(i, response)
    \/ \E i \in 1..Len(results) : ToggleFavorite(i)
    \/ StorageStep

SpecStore == (InitHome \/ InitLinked) /\ [][NextStore]_vars

\* the results screen of an application started by a link.  React runs the
\* effect of a committed render, the promise of API.get settles (an answer or
\* a transport error) and AsyncStorage serves its calls: each of the three is
\* taken when it stays possible; what the user does is not.
ResultsResponses ==
    {[kind |-> "throw"],
     [kind |-> "data", success |-> TRUE, hasResults |-> TRUE, results |-> <<A>>]}
Answer == \E i \in 1..MaxInFlight, response \in ResultsResponses : Response(i, response)
NextResults ==
    \/ ResultsEffect
    \/ \E p \in LinkParams : ParamsChange(p)
    \/ Answer
    \/ \E i \in 1..Len(results) : ToggleFavorite(i)
    \/ StorageStep

SpecResultsFair ==
    /\ InitLinked
    /\ [][NextResults]_vars
    /\ WF_vars(ResultsEffect)
    /\ WF_vars(Answer)
    /\ WF_vars(StorageStep)

\* the two stores over a storage whose texts are not JSON
SpecCorrupt == (InitHomeCorrupt \/ InitLinkedCorrupt) /\ [][NextStore]_vars

\* ================================================================= claims
\* the calls of the last handler
E == last.effects

\* C1 (as claimed): input-change events less than 500 ms apart lead to one
\* call of fetchSuggestions, with the text of the last event: the timers of
\* the earlier events are cancelled, so the only timer ever pending is the one
\* of the newest event, and a timer that fires is the newest one.
C1_OnlyNewestTimerRuns ==
    /\ \A i \in DOMAIN timers : timers[i].newest
    /\ last.op = "timer" => last.newest

\* C2 (as claimed): toggleFilter with a non-empty search term issues a lookup
\* at once, and the request carries the new active filter (none when the tag
\* was active before).
C2_ToggleFetchesWithNewFilter ==
    (last.op = "toggleFilter" /\ ~Falsy(word)) =>
        /\ Len(Calls(E, "API.get")) = 1
        /\ Calls(E, "API.get")[1].word = word
        /\ Calls(E, "API.get")[1].filter = OrElse(selectedFilter, Undefined)

\* the term a confirming handler confirmed: the trimmed input for a submit,
\* the tapped item (now the input) for a suggestion or a history item
ConfirmedTerm == IF last.op = "handleSearch" THEN trim(word) ELSE word

\* C3 (as claimed): a submit of a non-blank term, a tap on a suggestion and a
\* tap on a recent-search item each put the term at the front of the history
\* and then navigate to the results screen with the term and the active filter.
C3_ConfirmRecordsThenNavigates ==
    (/\ last.op \in {"handleSearch", "suggestionPress", "historyPress"}
     /\ ~Falsy(ConfirmedTerm)) =>
        /\ \E i, j \in DOMAIN E :
              /\ i < j
              /\ E[i].call = "setHistory"
              /\ E[i].value[1] = ConfirmedTerm
              /\ E[j].call = "router.push"
              /\ E[j].word = ConfirmedTerm
              /\ E[j].filter = OrElse(selectedFilter, Undefined)
        /\ history # <<>> /\ history[1] = ConfirmedTerm
        /\ route = "results"
        /\ params = [word |-> ConfirmedTerm,
                     filter |-> OrElse(selectedFilter, Undefined)]

\* the state setters of a screen's lookup, and the flag as it is now
FlagSetter(scr) == IF scr = "home" THEN "setIsSearching" ELSE "setLoading"
Flag(scr) == IF scr = "home" THEN isSearching ELSE loading
LookupFailed(response) ==
    response.kind = "throw" \/ (response.kind = "data" /\ ~response.success)
\* the list a response stands for
ListOf(response) ==
    IF response.kind = "data" /\ response.success /\ response.hasResults
    THEN response.results ELSE <<>>
\* the last handler is the rest of a lookup whose screen is still mounted
LookupCompleted ==
    last.op = "response" /\ (last.request.screen = "home" \/ last.request.live)

\* C4: when the remote call of a lookup throws or answers success = false,
\* the screen's list is empty once the lookup has completed, and the lookup
\* ends without an exception that nothing catches.
C4_FailedLookupGivesEmptyList ==
    (LookupCompleted /\ LookupFailed(last.response)) =>
        /\ Len(Calls(E, "unhandledRejection")) = 0
        /\ last.request.screen = "home" => suggestions = <<>>
        /\ last.request.screen = "results" => results = <<>>

C4_Witness ==
    /\ LookupCompleted
    /\ last.request.screen = "home"
    /\ last.response.kind = "data" /\ ~last.response.success
    /\ last.response.hasResults /\ last.response.results # <<>>
    /\ suggestions = <<>>

\* C5: a handler that issues a lookup request (always for a non-empty term)
\* has set the screen's in-progress flag to true before it, and the flag is
\* false once the request has completed, whatever the outcome.
C5_FlagBracketsLookup ==
    /\ \A j \in DOMAIN E :
          E[j].call = "API.get" =>
              /\ ~Falsy(E[j].word)
              /\ \E i \in 1..(j - 1) :
                    E[i].call = FlagSetter(last.screen) /\ E[i].value = TRUE
              /\ Flag(last.screen)
    /\ LookupCompleted =>
          /\ E[Len(E)] = Set(FlagSetter(last.request.screen), FALSE)
          /\ ~Flag(last.request.screen)

C5_Witness ==
    /\ LookupCompleted
    /\ last.request.screen = "results"
    /\ last.response.kind = "throw"
    /\ ~loading

SameRequest(r1, r2) ==
    r1.screen = r2.screen /\ r1.word = r2.word /\ r1.filter = r2.filter

\* C6: no step cancels a lookup in flight: a handler that issues a request
\* leaves the older ones in flight, a request leaves only by being answered,
\* and the answer is applied to the screen's list even when a newer request
\* of the screen has been issued since.
C6_NoLookupIsCancelled ==
    [][/\ \/ /\ Len(inflight') = Len(inflight) + Len(Calls(last'.effects, "API.get"))
             /\ \A i \in DOMAIN inflight : SameRequest(inflight'[i], inflight[i])
          \/ /\ last'.op = "response"
             /\ \E i \in DOMAIN inflight :
                   /\ SameRequest(last'.request, inflight[i])
                   /\ inflight' = Remove(inflight, i)
       /\ (last'.op = "response" /\ Len(inflight') < Len(inflight)) =>
             /\ last'.request.screen = "home" =>
                   suggestions' = ListOf(last'.response)
             /\ (last'.request.screen = "results" /\ last'.request.live) =>
                   results' = ListOf(last'.response)
      ]_vars

\* the answer of an older request was applied last, after the newest request
\* of the screen had been answered
C6_Witness ==
    /\ LookupCompleted
    /\ last.request.screen = "home"
    /\ ~last.request.latest
    /\ \A i \in DOMAIN inflight : inflight[i].screen # "home"
    /\ suggestions = <<A>>

NoDuplicates(list) ==
    \A i, j \in DOMAIN list : i # j => list[i] # list[j]

\* C7: the search history has at most 5 entries and no term twice, in memory
\* and as stored under 'searchHistory'.
C7_HistoryBoundedAndDistinct ==
    /\ Len(history) <= 5
    /\ NoDuplicates(history)
    /\ storage["searchHistory"].kind = "json" =>
          /\ Len(JSONparse(storage["searchHistory"])) <= 5
          /\ NoDuplicates(JSONparse(storage["searchHistory"]))

\* a new term was recorded on a full history, whose stored value is full too
C7_Witness ==
    /\ last.op = "saveToHistory"
    /\ Len(last.before) = 5 /\ ~includes(last.before, last.term)
    /\ Len(history) = 5
    /\ storage["searchHistory"].kind = "json"
    /\ Len(JSONparse(storage["searchHistory"])) = 5

\* the place of term in list, 0 when it is not there
PositionOf(term, list) ==
    IF includes(list, term) THEN CHOOSE i \in DOMAIN list : list[i] = term ELSE 0

Min(a, b) == IF a < b THEN a ELSE b

\* six distinct terms in the order they are recorded, and the history after
\* the first n of them: the 5 most recent, newest first
Recorded == <<A, B, <<"c">>, <<"d">>, <<"e">>, <<"f">>>>
NewestFirst(n) == [i \in 1..Min(n, 5) |-> Recorded[n + 1 - i]]

\* C8: saveToHistory(term) on history h gives term, then the entries of h
\* other than term in their order, cut to 5 entries; so recording six
\* distinct terms from the empty history evicts the first one.
C8_TermFirstOthersInOrder ==
    last.op = "saveToHistory" =>
        LET h == last.before
            k == PositionOf(last.term, h)
        IN  /\ Len(history) = Min(5, IF k = 0 THEN Len(h) + 1 ELSE Len(h))
            /\ history[1] = last.term
            /\ \A i \in 2..Len(history) :
                  history[i] = IF k = 0 \/ i - 1 < k THEN h[i - 1] ELSE h[i]
            /\ \A n \in 1..6 :
                  (last.term = Recorded[n] /\ h = NewestFirst(n - 1)) =>
                      history = NewestFirst(n)

C8_Witness ==
    /\ last.op = "saveToHistory"
    /\ last.term = <<"f">>
    /\ last.before = <<<<"e">>, <<"d">>, <<"c">>, B, A>>
    /\ history = <<<<"f">>, <<"e">>, <<"d">>, <<"c">>, B>>

Members(list) == {list[i] : i \in DOMAIN list}

\* C9: two successive toggleFavorite(term) calls leave every term's
\* membership as it was before the first; from no favorites the first gives
\* [term] and the second [].
C9_TwoTogglesRestoreMembership ==
    (last.op = "toggleFavorite" /\ last.again) =>
        /\ Members(favorites) = Members(last.first)
        /\ last.first = <<>> => (last.before = <<last.term>> /\ favorites = <<>>)
        /\ includes(last.first, last.term) = ~includes(last.before, last.term)

C9_Witness ==
    /\ last.op = "toggleFavorite" /\ last.again
    /\ last.first = <<>>
    /\ last.before = <<A>>
    /\ favorites = <<>>

StateSetterOf(key) == IF key = "searchHistory" THEN "setHistory" ELSE "setFavorites"
InMemory(key) == IF key = "searchHistory" THEN history ELSE favorites

\* C10: saveToHistory and toggleFavorite issue their storage write after the
\* state update, and write exactly the updated collection.
C10_WriteFollowsStateUpdate ==
    /\ \A j \in DOMAIN E :
          E[j].call = "setItem" =>
              /\ \E i \in 1..(j - 1) :
                    /\ E[i].call = StateSetterOf(E[j].key)
                    /\ JSONstringify(E[i].value) = E[j].value
              /\ \A i \in 1..(j - 1) : E[i].call # "setItem"
              /\ E[j].value = JSONstringify(InMemory(E[j].key))
              /\ storageOps # <<>>
              /\ storageOps[Len(storageOps)].op = "setItem"
              /\ storageOps[Len(storageOps)].value = E[j].value
    /\ last.op \in {"saveToHistory", "toggleFavorite"} =>
          Len(Calls(E, "setItem")) = 1

C10_Witness ==
    /\ last.op = "toggleFavorite"
    /\ favorites = <<A, <<"c">>>>
    /\ storageOps[Len(storageOps)] =
          [op |-> "setItem", key |-> "favorites",
           value |-> JSONstringify(favorites), live |-> TRUE]

\* C11: the active filter is one tag or none.  toggleFilter(tag) makes tag
\* the active filter when none or another one was active, and leaves none
\* active when tag was; so tag after tag gives none, and another tag after
\* tag gives the other one alone.
C11_ToggleSelectsOrClears ==
    /\ selectedFilter \in Filters \cup {Null}
    /\ last.op = "toggleFilter" =>
          /\ last.before # last.filterName => selectedFilter = last.filterName
          /\ last.before = last.filterName => selectedFilter = Null
          /\ E[1] = Set("setSelectedFilter", selectedFilter)
          /\ Len(Calls(E, "setSelectedFilter")) = 1

\* the tag that was active has been tapped again: none is active
C11_Witness ==
    /\ last.op = "toggleFilter"
    /\ last.before = <<"pada">> /\ last.filterName = <<"pada">>
    /\ selectedFilter = Null

\* C12: fetchSuggestions('') issues no remote request and leaves the
\* suggestion list empty: its only call is setSuggestions([]), and the
\* requests in flight are the ones that were.
C12_EmptyInputIssuesNoRequest ==
    (last.op = "timer" /\ last.input = EmptyString) =>
        /\ Len(Calls(E, "API.get")) = 0
        /\ E = <<Set("setSuggestions", <<>>)>>
        /\ suggestions = <<>>
        /\ \A i \in DOMAIN inflight : inflight[i].word # EmptyString

\* fetchSuggestions('') ran while the request of an earlier text was in flight
C12_Witness ==
    /\ last.op = "timer" /\ last.input = EmptyString
    /\ Len(inflight) = 1 /\ inflight[1].word = A
    /\ suggestions = <<>>

\* C13 (as claimed): the caller tests for blank input before it schedules:
\* an input-change event with empty text schedules nothing, and the debounced
\* handler never runs for the empty string.
C13_EmptyTextSchedulesNothing ==
    /\ (last.op = "onChangeText" /\ word = EmptyString) =>
          Len(Calls(E, "setTimeout")) = 0
    /\ \A i \in DOMAIN timers : timers[i].input # EmptyString
    /\ last.op = "timer" => last.input # EmptyString

\* C13 (amended): the caller makes no test: every input-change event, with
\* empty text too, schedules the handler with its text for 500 ms later; the
\* handler does run for the empty string, and its own test of the input keeps
\* it from issuing a request.
C13_EveryTextIsScheduled ==
    /\ last.op = "onChangeText" =>
          /\ E = <<Set("setWord", word), ClearTimeout, SetTimeout(word, Delay)>>
          /\ timers # <<>>
          /\ timers[Len(timers)].input = word
          /\ timers[Len(timers)].left = Delay
    /\ (last.op = "timer" /\ last.input = EmptyString) =>
          Len(Calls(E, "API.get")) = 0

\* the text was deleted: a timer for the empty string is pending
C13_Witness ==
    /\ last.op = "onChangeText" /\ word = EmptyString
    /\ timers[Len(timers)].input = EmptyString
    /\ timers[Len(timers)].left = Delay

\* C17 (as claimed): on the home screen isSearching is true in every state
\* in which a suggestion request is in flight, also when requests overlap.
C17_SearchingWhileRequestInFlight ==
    (\E i \in DOMAIN inflight : inflight[i].screen = "home") => isSearching

\* C20 (as claimed): on the home screen, when the search term is empty and no
\* debounce timer and no suggestion request is pending, the suggestion list
\* is empty, whether the text was deleted or the clear button pressed.
C20_EmptyTermEmptySuggestions ==
    (/\ route = "home"
     /\ word = EmptyString
     /\ timers = <<>>
     /\ \A i \in DOMAIN inflight : inflight[i].screen # "home") =>
        suggestions = <<>>

\* C14: no term is twice among the favorites, in memory, in a write not yet
\* served and as stored under 'favorites'.
C14_FavoritesDistinct ==
    /\ NoDuplicates(favorites)
    /\ storage["favorites"].kind = "json" =>
          NoDuplicates(JSONparse(storage["favorites"]))
    /\ \A i \in DOMAIN storageOps :
          (storageOps[i].op = "setItem" /\ storageOps[i].key = "favorites") =>
              NoDuplicates(JSONparse(storageOps[i].value))

\* two favorites are stored and in memory after a write was served
C14_Witness ==
    /\ last.op = "storage" /\ last.call.op = "setItem"
    /\ last.call.key = "favorites"
    /\ Len(favorites) = 2
    /\ JSONparse(storage["favorites"]) = favorites

\* the writes of key not yet served, oldest first
PendingWrites(key) ==
    SelectSeq(storageOps, LAMBDA o : o.op = "setItem" /\ o.key = key)

\* the last handler is the rest of a load whose getItem resolved to stored
LoadResolved ==
    /\ last.op = "storage" /\ last.call.op = "getItem" /\ last.call.live

C16_CorruptLoadDegradesToEmpty ==
    (LoadResolved /\ storage[last.call.key].kind = "corrupt") =>
        /\ Len(Calls(E, "unhandledRejection")) = 0
        /\ InMemory(last.call.key) = <<>>

\* the list stored under key, empty for an absent key
Stored(key) ==
    IF storage[key].kind = "json" THEN JSONparse(storage[key]) ELSE <<>>

\* the mounted screen's collection is the stored one
MemoryIsStored ==
    /\ route = "home" => history = Stored("searchHistory")
    /\ (route = "results" /\ ~effectDue) => favorites = Stored("favorites")

\* C18 (as claimed): however the mount's load and the saves interleave,
\* once no storage call is pending the collection in memory is the stored
\* one, and a write of the history keeps the terms stored before it unless
\* the limit of 5 entries evicts them.
C18_LoadAndSaveAgree ==
    [][/\ storageOps' = <<>> => MemoryIsStored'
       /\ storage'["searchHistory"] # storage["searchHistory"] =>
             \A i \in DOMAIN Stored("searchHistory") :
                \/ includes(Stored("searchHistory")', Stored("searchHistory")[i])
                \/ Len(Stored("searchHistory")') = HistoryLimit
      ]_vars

\* C19 (as claimed): on the results screen a loading flag that is true
\* becomes false, whatever the navigation parameters are, also with the word
\* parameter absent or empty.
C19_LoadingEventuallyFalse ==
    (route = "results" /\ loading) ~> ~loading

====
